---- MODULE Spec2Model ----
(***************************************************************************)
(* A model of the autosort template tag of webstack_django_sorting:       *)
(* SortedDataNode.need_python_sorting, SortedDataNode.sort_queryset and   *)
(* SortedDataNode.render (templatetags/sorting_tags.py).                  *)
(*                                                                         *)
(* Strings are sequences of one-character strings, so that str.find,      *)
(* ordering[0], ordering[1:] and len(ordering) are computed as Python     *)
(* computes them.  A collection is a record                               *)
(*    kind     "queryset" (a Django QuerySet) or "list" (a Python list)   *)
(*    rows     the records, in the order the collection yields them       *)
(*    fields   the names of queryset.model._meta.get_fields()             *)
(*    order_by the expression of the ordering clause, or None             *)
(* and a record is [id, attrs], attrs mapping the names of the attributes *)
(* the object exposes to their values.                                    *)
(***************************************************************************)
EXTENDS Integers, Sequences, FiniteSets, TLC

VARIABLES
    context,                  \* the template context: variable name -> value
    sort_field,               \* what get_sort_field(request) returns
    INVALID_FIELD_RAISES_404, \* the setting imported at line 7
    pc,                       \* "idle", "ready", "rendered" or "aborted"
    call,                     \* the last call of sort_queryset and its outcome
    rendered                  \* the last call of render and its outcome

vars == <<context, sort_field, INVALID_FIELD_RAISES_404, pc, call, rendered>>

----------------------------------------------------------------------------
(* Bounds of the model. *)

MaxLen == 3     \* longest ordering expression
MaxRows == 2    \* most records in a collection

Chars == {"-", "_", "a"}
Values == {0, 1}

\* Python's None, as a value no string of Chars equals.
None == <<"NoneType">>

Strings == UNION {[1..n -> Chars] : n \in 0..MaxLen}

\* Names a model field can have: identifiers (Django rejects the others).
FieldPool == {<<"a">>}

\* Names of the attributes a record may expose besides its fields: "a" is set
\* on the instance (a record has it or not, with its own value), "__" is an
\* attribute of the class (all the records of a collection have it, or none).
DunderAttr == <<"_", "_">>
AttrPool == {<<"a">>, DunderAttr}

AttrMaps ==
    {m \in UNION {[S -> Values] : S \in SUBSET AttrPool} :
        DunderAttr \in DOMAIN m => m[DunderAttr] = 0}

SameClass(f) ==
    \A i, j \in DOMAIN f : (DunderAttr \in DOMAIN f[i]) = (DunderAttr \in DOMAIN f[j])

RowLists ==
    UNION {{[i \in 1..n |-> [id |-> i, attrs |-> f[i]]] :
               f \in {g \in [1..n -> AttrMaps] : SameClass(g)}} :
              n \in 0..MaxRows}

\* No value: an unbound context variable, the value of a call that raised.
Nothing == [kind |-> "nothing", rows |-> <<>>, fields |-> {}, order_by |-> None]

QuerySets ==
    {[kind |-> "queryset", rows |-> r, fields |-> fs, order_by |-> None] :
        r \in RowLists, fs \in SUBSET FieldPool}

Lists ==
    {[kind |-> "list", rows |-> r, fields |-> {}, order_by |-> None] : r \in RowLists}

list(rows) == [kind |-> "list", rows |-> rows, fields |-> {}, order_by |-> None]

NoCall ==
    [queryset |-> Nothing, ordering |-> None, raised |-> "NoCall",
     value |-> Nothing, log |-> <<>>, delegated |-> None]

NotRendered ==
    [key |-> "", raised |-> "NotRendered", returned |-> "None",
     before |-> [object_list |-> Nothing, sorted_list |-> Nothing]]

----------------------------------------------------------------------------
(* Python's built-ins, as the code uses them. *)

Min(S) == CHOOSE x \in S : \A y \in S : x <= y

\* str.find: the lowest 0-based index at which sub occurs in s, or -1.
find(s, sub) ==
    LET hits == {i \in 0..(Len(s) - Len(sub)) : SubSeq(s, i + 1, i + Len(sub)) = sub}
    IN  IF hits = {} THEN -1 ELSE Min(hits)

\* `not ordering`: None and the empty string are falsy.
Falsy(o) == o = None \/ Len(o) = 0

hasattr(record, name) == name \in DOMAIN record.attrs

Reverse(s) == [i \in 1..Len(s) |-> s[Len(s) + 1 - i]]

\* x after the elements of the ascending sequence s whose key is <= x's.
Insert(x, s, name) ==
    LET k == Cardinality({i \in 1..Len(s) : s[i].attrs[name] <= x.attrs[name]})
    IN  SubSeq(s, 1, k) \o <<x>> \o SubSeq(s, k + 1, Len(s))

RECURSIVE SortAscending(_, _)
SortAscending(rows, name) ==
    IF rows = <<>> THEN <<>>
    ELSE Insert(rows[Len(rows)], SortAscending(SubSeq(rows, 1, Len(rows) - 1), name), name)

\* A descending sort that reverses the ascending result: equal keys swap.
sorted_unstable(rows, name, reverse) ==
    IF reverse THEN Reverse(SortAscending(rows, name)) ELSE SortAscending(rows, name)

\* sorted(queryset, key=attrgetter(name), reverse=reverse): a stable sort;
\* with reverse the list is reversed, sorted and reversed back, which keeps
\* equal keys in their input order.
sorted(rows, name, reverse) ==
    IF reverse THEN Reverse(SortAscending(Reverse(rows), name))
    ELSE SortAscending(rows, name)

----------------------------------------------------------------------------
(* The program. *)

\* queryset.exists() (line 117): a QuerySet answers whether it has a row; a
\* list has no attribute `exists`, and the lookup raises AttributeError.
exists_any_sequence(queryset) ==
    [raised |-> "None", result |-> queryset.rows # <<>>]

exists(queryset) ==
    IF queryset.kind = "queryset"
    THEN [raised |-> "None", result |-> queryset.rows # <<>>]
    ELSE [raised |-> "AttributeError", result |-> FALSE]

\* need_python_sorting comparing the expression, marker included.
need_python_sorting_unstripped(queryset, ordering) ==
    IF find(ordering, <<"_", "_">>) >= 0
    THEN [need |-> FALSE, log |-> <<>>]
    ELSE [need |-> ordering \notin queryset.fields, log |-> <<"get_fields">>]

\* need_python_sorting without the test for '__'.
need_python_sorting_no_separator(queryset, ordering) ==
    LET field == IF ordering[1] = "-" THEN Tail(ordering) ELSE ordering
    IN  [need |-> field \notin queryset.fields, log |-> <<"get_fields">>]

\* need: the value returned; log: what the call read of the queryset.
need_python_sorting(queryset, ordering) ==
    IF find(ordering, <<"_", "_">>) >= 0
    THEN [need |-> FALSE, log |-> <<>>]
    ELSE LET field == IF ordering[1] = "-" THEN Tail(ordering) ELSE ordering
         IN  [need |-> field \notin queryset.fields, log |-> <<"get_fields">>]

\* queryset.order_by(ordering) (line 139): a new handle carrying the ordering
\* clause, no row fetched.  The backend resolves a model field; whether it
\* resolves any other path is its own answer (accepts), and it raises FieldError
\* when it does not.
order_by(queryset, ordering, accepts) ==
    LET field == IF ordering[1] = "-" THEN Tail(ordering) ELSE ordering
    IN  IF field \in queryset.fields \/ accepts
        THEN [raised |-> "None", value |-> [queryset EXCEPT !.order_by = ordering],
              log |-> <<"order_by">>, delegated |-> ordering]
        ELSE [raised |-> "FieldError", value |-> Nothing,
              log |-> <<"order_by">>, delegated |-> ordering]

\* The sort of lines 124-137, given the direction and the name.
sort_by_attribute(queryset, name, reverse) ==
    IF hasattr(queryset.rows[1], name)
    THEN IF \A i \in 1..Len(queryset.rows) : hasattr(queryset.rows[i], name)
         THEN [raised |-> "None", value |-> list(sorted(queryset.rows, name, reverse)),
               log |-> <<"getitem", "hasattr", "sorted">>, delegated |-> None]
         ELSE \* attrgetter(name) raises on the record that lacks the attribute
              [raised |-> "AttributeError", value |-> Nothing,
               log |-> <<"getitem", "hasattr", "sorted">>, delegated |-> None]
    ELSE [raised |-> "AttributeError", value |-> Nothing,
          log |-> <<"getitem", "hasattr">>, delegated |-> None]

\* The in-memory branch returning the input when the attribute is missing.
python_sorting_skips_missing(queryset, ordering) ==
    IF ordering[1] = "-" /\ Len(ordering) = 1
    THEN [raised |-> "TemplateSyntaxError", value |-> Nothing,
          log |-> <<>>, delegated |-> None]
    ELSE LET name == IF ordering[1] = "-" THEN Tail(ordering) ELSE ordering
             r == sort_by_attribute(queryset, name, ordering[1] = "-")
         IN  IF r.raised = "AttributeError"
             THEN [r EXCEPT !.raised = "None", !.value = queryset]
             ELSE r

\* The in-memory branch without the test for the marker alone.
python_sorting_no_marker_test(queryset, ordering) ==
    IF ordering[1] = "-"
    THEN sort_by_attribute(queryset, Tail(ordering), TRUE)
    ELSE sort_by_attribute(queryset, ordering, FALSE)

\* Lines 119-137: the fallback on pure Python sorting.
python_sorting(queryset, ordering) ==
    IF ordering[1] = "-"
    THEN IF Len(ordering) = 1
         THEN \* Prefix without field name
              [raised |-> "TemplateSyntaxError", value |-> Nothing,
               log |-> <<>>, delegated |-> None]
         ELSE sort_by_attribute(queryset, Tail(ordering), TRUE)
    ELSE sort_by_attribute(queryset, ordering, FALSE)

\* Lines 118-139, once the queryset is known to have a row.
sort_rows(queryset, ordering, accepts) ==
    LET n == need_python_sorting(queryset, ordering)
        r == IF n.need THEN python_sorting(queryset, ordering)
             ELSE order_by(queryset, ordering, accepts)
    IN  [r EXCEPT !.log = n.log \o r.log]

Outcome(queryset, ordering, r) ==
    [queryset |-> queryset, ordering |-> ordering, raised |-> r.raised,
     value |-> r.value, log |-> r.log, delegated |-> r.delegated]

Returned(queryset, log) ==
    [raised |-> "None", value |-> queryset, log |-> log, delegated |-> None]

\* sort_queryset probing the queryset before it tests the expression.
sort_queryset_probes_first(queryset, ordering, accepts) ==
    LET e == exists(queryset)
    IN  IF e.raised # "None"
        THEN Outcome(queryset, ordering,
                     [raised |-> e.raised, value |-> Nothing,
                      log |-> <<"exists">>, delegated |-> None])
        ELSE IF Falsy(ordering)
        THEN Outcome(queryset, ordering, Returned(queryset, <<"exists">>))
        ELSE IF e.result
        THEN LET r == sort_rows(queryset, ordering, accepts)
             IN  Outcome(queryset, ordering, [r EXCEPT !.log = <<"exists">> \o r.log])
        ELSE Outcome(queryset, ordering, Returned(queryset, <<"exists">>))

\* sort_queryset classifying the expression without the test of line 117.
sort_queryset_no_probe(queryset, ordering, accepts) ==
    IF Falsy(ordering)
    THEN Outcome(queryset, ordering, Returned(queryset, <<>>))
    ELSE LET n == need_python_sorting(queryset, ordering)
         IN  IF n.need /\ queryset.rows = <<>>
             THEN Outcome(queryset, ordering,
                          [raised |-> "IndexError", value |-> Nothing,
                           log |-> n.log \o <<"getitem">>, delegated |-> None])
             ELSE Outcome(queryset, ordering, sort_rows(queryset, ordering, accepts))

\* sort_queryset (lines 113-141).  The record returned is the call: its
\* arguments, the exception raised ("None" when it returns), the value
\* returned, the operations performed on the queryset in order (log), and the
\* expression handed to the backend (delegated).
sort_queryset(queryset, ordering, accepts) ==
    IF Falsy(ordering)
    THEN Outcome(queryset, ordering, Returned(queryset, <<>>))
    ELSE LET e == exists(queryset)
         IN  IF e.raised # "None"
             THEN Outcome(queryset, ordering,
                          [raised |-> e.raised, value |-> Nothing,
                           log |-> <<"exists">>, delegated |-> None])
             ELSE IF e.result
             THEN LET r == sort_rows(queryset, ordering, accepts)
                  IN  Outcome(queryset, ordering,
                              [r EXCEPT !.log = <<"exists">> \o r.log])
             ELSE Outcome(queryset, ordering, Returned(queryset, <<"exists">>))

\* The node of {% autosort object_list %} has context_var None ("None"
\* here); that of {% autosort object_list as sorted_list %} has "sorted_list".
queryset_var == "object_list"
ContextVars == {"None", "sorted_list"}

\* render catching every exception.
render_catches_all(ctx, context_var, o, raises_404, accepts) ==
    LET key == IF context_var # "None" THEN context_var ELSE queryset_var
        queryset == ctx[queryset_var]
        c == sort_queryset(queryset, o, accepts)
    IN  IF c.raised = "None"
        THEN [context |-> [ctx EXCEPT ![key] = c.value], key |-> key,
              raised |-> "None", returned |-> "", call |-> c]
        ELSE IF raises_404
        THEN [context |-> ctx, key |-> key,
              raised |-> "Http404", returned |-> "None", call |-> c]
        ELSE [context |-> [ctx EXCEPT ![key] = queryset], key |-> key,
              raised |-> "None", returned |-> "", call |-> c]

\* render binding the key before it consults the setting.
render_binds_first(ctx, context_var, o, raises_404, accepts) ==
    LET key == IF context_var # "None" THEN context_var ELSE queryset_var
        queryset == ctx[queryset_var]
        c == sort_queryset(queryset, o, accepts)
    IN  IF c.raised = "None"
        THEN [context |-> [ctx EXCEPT ![key] = c.value], key |-> key,
              raised |-> "None", returned |-> "", call |-> c]
        ELSE IF c.raised \in {"TemplateSyntaxError", "AttributeError"}
        THEN [context |-> [ctx EXCEPT ![key] = queryset], key |-> key,
              raised |-> IF raises_404 THEN "Http404" ELSE "None",
              returned |-> IF raises_404 THEN "None" ELSE "", call |-> c]
        ELSE [context |-> ctx, key |-> key,
              raised |-> c.raised, returned |-> "None", call |-> c]

\* render (lines 143-162): the context after it, the key it binds, the
\* exception it raises ("None" when it returns) and the string it returns.
render(ctx, context_var, o, raises_404, accepts) ==
    LET key == IF context_var # "None" THEN context_var ELSE queryset_var
        queryset == ctx[queryset_var]
        c == sort_queryset(queryset, o, accepts)
    IN  IF c.raised = "None"
        THEN [context |-> [ctx EXCEPT ![key] = c.value], key |-> key,
              raised |-> "None", returned |-> "", call |-> c]
        ELSE IF c.raised \in {"TemplateSyntaxError", "AttributeError"}
        THEN IF raises_404
             THEN [context |-> ctx, key |-> key,
                   raised |-> "Http404", returned |-> "None", call |-> c]
             ELSE [context |-> [ctx EXCEPT ![key] = queryset], key |-> key,
                   raised |-> "None", returned |-> "", call |-> c]
        ELSE [context |-> ctx, key |-> key,
              raised |-> c.raised, returned |-> "None", call |-> c]

----------------------------------------------------------------------------
(* The state machine: a view fills the context for a request, the template *)
(* renders its autosort tags one after the other on that context, and the  *)
(* request ends (or is aborted by an exception).                           *)

EmptyContext == [object_list |-> Nothing, sorted_list |-> Nothing]

Init ==
    /\ context = EmptyContext
    /\ sort_field = None
    /\ INVALID_FIELD_RAISES_404 \in BOOLEAN
    /\ pc = "idle"
    /\ call = NoCall
    /\ rendered = NotRendered

\* The view puts a collection in the context; the request carries the sort.
View ==
    /\ pc = "idle"
    /\ \E q \in QuerySets \cup Lists, o \in Strings \cup {None} :
           /\ context' = [EmptyContext EXCEPT !.object_list = q]
           /\ sort_field' = o
    /\ pc' = "ready"
    /\ UNCHANGED <<INVALID_FIELD_RAISES_404, call, rendered>>

\* An autosort tag of the template is rendered.
Render(context_var, accepts) ==
    /\ pc \in {"ready", "rendered"}
    /\ LET r == render(context, context_var, sort_field, INVALID_FIELD_RAISES_404, accepts)
       IN  /\ context' = r.context
           /\ call' = r.call
           /\ rendered' = [key |-> r.key, raised |-> r.raised,
                           returned |-> r.returned, before |-> context]
           /\ pc' = IF r.raised = "None" THEN "rendered" ELSE "aborted"
    /\ UNCHANGED <<sort_field, INVALID_FIELD_RAISES_404>>

\* The response is sent, or the exception has ended the request.
Finish ==
    /\ pc \in {"rendered", "aborted"}
    /\ context' = EmptyContext
    /\ sort_field' = None
    /\ pc' = "idle"
    /\ call' = NoCall
    /\ rendered' = NotRendered
    /\ UNCHANGED INVALID_FIELD_RAISES_404

Next ==
    \/ View
    \/ \E context_var \in ContextVars, accepts \in BOOLEAN : Render(context_var, accepts)
    \/ Finish

Spec == Init /\ [][Next]_vars

----------------------------------------------------------------------------
(* The vocabulary of the properties.  They are stated on the record of the *)
(* last call of sort_queryset (call) and of render (rendered), in terms    *)
(* that do not use the operators of the program.                           *)

Called == call.raised # "NoCall"

NonEmptyExpression(o) == o # None /\ o # <<>>

HasSeparator(o) == \E i \in 1..(Len(o) - 1) : o[i] = "_" /\ o[i + 1] = "_"

\* The expression with a leading '-' removed.
FieldReference(o) == IF o[1] = "-" THEN SubSeq(o, 2, Len(o)) ELSE o

\* A query handle that has at least one row.
NonEmptyHandle(q) == q.kind = "queryset" /\ q.rows # <<>>

InLog(op) == \E i \in DOMAIN call.log : call.log[i] = op

NothingLocal == ~InLog("getitem") /\ ~InLog("hasattr") /\ ~InLog("sorted")

Count(s, r) == Cardinality({i \in DOMAIN s : s[i] = r})

\* The expression is routed to the in-memory path and names an attribute.
InMemoryCase ==
    /\ Called
    /\ NonEmptyHandle(call.queryset)
    /\ NonEmptyExpression(call.ordering)
    /\ ~HasSeparator(call.ordering)
    /\ FieldReference(call.ordering) \notin call.queryset.fields
    /\ call.ordering # <<"-">>

----------------------------------------------------------------------------
\* C1: on a non-empty query handle, a non-empty expression without '__' whose
\* field reference is one of the model's field names makes sort_queryset
\* return queryset.order_by(expression), the expression passed whole, with no
\* record fetched, probed or compared locally.
C1_NativeFieldDelegates ==
    (/\ Called
     /\ NonEmptyHandle(call.queryset)
     /\ NonEmptyExpression(call.ordering)
     /\ ~HasSeparator(call.ordering)
     /\ FieldReference(call.ordering) \in call.queryset.fields)
    => /\ call.raised = "None"
       /\ call.value = [call.queryset EXCEPT !.order_by = call.ordering]
       /\ call.delegated = call.ordering
       /\ NothingLocal

C1_Witness ==
    /\ Called
    /\ NonEmptyHandle(call.queryset)
    /\ call.ordering = <<"-", "a">>
    /\ <<"a">> \in call.queryset.fields
    /\ call.value.order_by = <<"-", "a">>

\* C2: on a non-empty query handle, an expression containing '__' anywhere is
\* always handed whole to the backend, whatever the field names and whatever
\* the attributes of the records; the outcome is the backend's (the ordered
\* handle or its FieldError), never the in-memory path or one of its errors.
C2_SeparatorAlwaysDelegates ==
    (/\ Called
     /\ NonEmptyHandle(call.queryset)
     /\ NonEmptyExpression(call.ordering)
     /\ HasSeparator(call.ordering))
    => /\ call.delegated = call.ordering
       /\ InLog("order_by")
       /\ NothingLocal
       /\ call.raised \in {"None", "FieldError"}
       /\ call.raised = "None" =>
              call.value = [call.queryset EXCEPT !.order_by = call.ordering]
       /\ call.raised = "FieldError" => call.value = Nothing

C2_Witness ==
    /\ Called
    /\ NonEmptyHandle(call.queryset)
    /\ call.ordering = <<"-", "_", "_">>
    /\ <<"_", "_">> \in DOMAIN call.queryset.rows[1].attrs
    /\ call.delegated = <<"-", "_", "_">>
    /\ call.raised = "None"

\* C3: on the in-memory path, when every record has the attribute, the result
\* is a new list holding the same records (same length, same multiset),
\* ascending by the attribute without a leading '-' and descending with one,
\* records of equal keys in their input order in both directions.
C3_InMemorySortStable ==
    (/\ InMemoryCase
     /\ \A i \in DOMAIN call.queryset.rows :
            FieldReference(call.ordering) \in DOMAIN call.queryset.rows[i].attrs)
    => LET input == call.queryset.rows
           output == call.value.rows
           name == FieldReference(call.ordering)
           descending == call.ordering[1] = "-"
           Position(r) == CHOOSE p \in DOMAIN input : input[p] = r
       IN  /\ call.raised = "None"
           /\ call.value.kind = "list"
           /\ Len(output) = Len(input)
           /\ \A i \in DOMAIN input : Count(output, input[i]) = Count(input, input[i])
           /\ \A i, j \in DOMAIN output :
                  i < j =>
                      /\ IF descending
                         THEN output[i].attrs[name] >= output[j].attrs[name]
                         ELSE output[i].attrs[name] <= output[j].attrs[name]
                      /\ output[i].attrs[name] = output[j].attrs[name] =>
                             Position(output[i]) < Position(output[j])

C3_Witness ==
    /\ InMemoryCase
    /\ call.ordering = <<"-", "a">>
    /\ Len(call.queryset.rows) = 2
    /\ \A i \in DOMAIN call.queryset.rows : <<"a">> \in DOMAIN call.queryset.rows[i].attrs
    /\ call.queryset.rows[1].attrs[<<"a">>] = call.queryset.rows[2].attrs[<<"a">>]
    /\ call.value.kind = "list"
    /\ call.value.rows = call.queryset.rows

\* C4: on the in-memory path, when the first record lacks the comparison key
\* (the name the code derives from the expression), sort_queryset raises
\* AttributeError and returns nothing, without sorting any record.
C4_MissingAttributeRaises ==
    (/\ InMemoryCase
     /\ FieldReference(call.ordering) \notin DOMAIN call.queryset.rows[1].attrs)
    => /\ call.raised = "AttributeError"
       /\ call.value = Nothing
       /\ ~InLog("sorted")

C4_Witness ==
    /\ InMemoryCase
    /\ call.ordering = <<"a">>
    /\ Len(call.queryset.rows) = 2
    /\ <<"a">> \notin DOMAIN call.queryset.rows[1].attrs
    /\ <<"a">> \in DOMAIN call.queryset.rows[2].attrs
    /\ call.raised = "AttributeError"

\* C5: a TemplateSyntaxError or AttributeError of sort_queryset never leaves
\* render: with INVALID_FIELD_RAISES_404 render raises Http404 and leaves the
\* context as it was; without it render binds the key to the collection it
\* was given and returns the empty string.
C5_RenderClassifiesFailure ==
    (/\ rendered.raised # "NotRendered"
     /\ call.raised \in {"TemplateSyntaxError", "AttributeError"})
    => IF INVALID_FIELD_RAISES_404
       THEN /\ rendered.raised = "Http404"
            /\ context = rendered.before
       ELSE /\ rendered.raised = "None"
            /\ rendered.returned = ""
            /\ context = [rendered.before EXCEPT ![rendered.key] = call.queryset]
            /\ call.queryset = rendered.before.object_list

C5_Witness ==
    /\ rendered.raised = "Http404"
    /\ INVALID_FIELD_RAISES_404
    /\ NonEmptyHandle(call.queryset)
    /\ call.raised = "TemplateSyntaxError"
    /\ rendered.key = "sorted_list"
    /\ context.sorted_list = Nothing

\* C6: on a non-empty query handle the expression '-' makes sort_queryset raise
\* TemplateSyntaxError, whatever the field names; nothing is handed to the
\* backend and nothing is sorted.
C6_MarkerOnlyIsInvalid ==
    (/\ Called
     /\ NonEmptyHandle(call.queryset)
     /\ call.ordering = <<"-">>)
    => /\ call.raised = "TemplateSyntaxError"
       /\ call.value = Nothing
       /\ call.delegated = None
       /\ ~InLog("order_by")
       /\ ~InLog("sorted")

C6_Witness ==
    /\ Called
    /\ NonEmptyHandle(call.queryset)
    /\ call.queryset.fields = {<<"a">>}
    /\ call.ordering = <<"-">>
    /\ call.raised = "TemplateSyntaxError"

C8_EmptyExpressionIdentity ==
    (/\ Called
     /\ (call.ordering = None \/ call.ordering = <<>>))
    => /\ call.raised = "None"
       /\ call.value = call.queryset
       /\ call.log = <<>>
       /\ call.delegated = None

C8_Witness ==
    /\ Called
    /\ call.queryset.kind = "list"
    /\ call.queryset.rows # <<>>
    /\ call.ordering = <<>>
    /\ call.value = call.queryset

\* C9: a FieldError raised by order_by leaves render as it is, under both
\* values of INVALID_FIELD_RAISES_404: no Http404, no key bound.
C9_BackendFailurePropagates ==
    (/\ rendered.raised # "NotRendered"
     /\ call.raised = "FieldError")
    => /\ rendered.raised = "FieldError"
       /\ context = rendered.before

C9_Witness ==
    /\ rendered.raised = "FieldError"
    /\ ~INVALID_FIELD_RAISES_404
    /\ call.delegated = <<"a", "_", "_">>
    /\ pc = "aborted"

====
